---- MODULE Spec2Model ----
(***************************************************************************)
(* Model of the FastMCP Discord Integration Server: the authentication     *)
(* middleware (app/auth/middleware.py), the HTTP routes behind it          *)
(* (app/main.py), and the shared Discord bot the routes use                *)
(* (app/discord/bot.py).                                                   *)
(*                                                                         *)
(* Python strings the code takes apart (header values, API keys, user     *)
(* ids, the secret) are sequences of one-character strings.  Strings the   *)
(* code only compares or returns (paths, tool names, permission labels,    *)
(* response details) are TLA+ strings.  Optional[str] is <<>> for None     *)
(* and <<s>> for the string s.                                             *)
(***************************************************************************)
EXTENDS Integers, Sequences, FiniteSets, TLC

VARIABLES req, state, resp, issued, revoked, bot, perm, gen, grants, life,
          direct, call, search, ver

vars ==
    <<req, state, resp, issued, revoked, bot, perm, gen, grants, life,
      direct, call, search, ver>>

(***************************************************************************)
(* Bounds                                                                  *)
(***************************************************************************)
\* Number of requests that can be in flight at the same time.
NumReq == 2

\* Longest permission list drawn as input of the permission evaluation.
MaxPermLen == 2

\* Longest user_id and longest secret drawn as input of generate_api_key.
MaxIdLen == 2

\* Number of tool calls that can be in flight at the same time when the MCP
\* server runs on its own.
NumDirect == 2

\* Number of DiscordBot objects constructed in a run, at most.
MaxBots == 2

\* The longest channel history and the largest limit of a search.
MaxHistory == 3

MaxLimit == 3

\* The most characters that follow the first part of a token to verify.
MaxBody == 8

Req == 1..NumReq

Direct == 1..NumDirect

(***************************************************************************)
(* Python string operations                                                *)
(***************************************************************************)
None == <<>>

Some(s) == <<s>>

\* str.startswith(prefix)
StartsWith(s, prefix) ==
    /\ Len(s) >= Len(prefix)
    /\ SubSeq(s, 1, Len(prefix)) = prefix

\* str.replace(old, new): every non-overlapping occurrence, left to right.
RECURSIVE Replace(_, _, _)
Replace(s, old, new) ==
    IF s = <<>> THEN <<>>
    ELSE IF StartsWith(s, old)
         THEN new \o Replace(SubSeq(s, Len(old) + 1, Len(s)), old, new)
         ELSE <<Head(s)>> \o Replace(Tail(s), old, new)

\* Python truthiness of an Optional[str]: None and "" are falsy.
Truthy(opt) == opt # None /\ opt[1] # <<>>

\* Python `a or b` on two Optional[str] values.
PyOr(a, b) == IF Truthy(a) THEN a ELSE b

mcp_ == <<"m", "c", "p", "_">>

Bearer_ == <<"B", "e", "a", "r", "e", "r", " ">>

(***************************************************************************)
(* Settings (app/config.py)                                                *)
(***************************************************************************)
api_key_secret ==
    <<"d", "e", "f", "a", "u", "l", "t", "_", "s", "e", "c", "r", "e", "t">>

(***************************************************************************)
(* Credential issuer: generate_api_key                                     *)
(***************************************************************************)
Alphabet ==
    <<"a", "b", "c", "d", "e", "f", "g", "h", "i", "j", "k", "l", "m",
      "n", "o", "p", "q", "r", "s", "t", "u", "v", "w", "x", "y", "z",
      "_", ":", " ", "B", "0", "1", "2", "3", "4", "5", "6", "7", "8", "9">>

HexChars ==
    <<"0", "1", "2", "3", "4", "5", "6", "7",
      "8", "9", "a", "b", "c", "d", "e", "f">>

Code(c) == CHOOSE i \in 1..Len(Alphabet) : Alphabet[i] = c

RECURSIVE Mix(_, _)
Mix(h, s) ==
    IF s = <<>> THEN h
    ELSE Mix((h * 31 + Code(Head(s))) % 65521, Tail(s))

RECURSIVE HexDigits(_, _)
HexDigits(g, n) ==
    IF n = 0 THEN <<>>
    ELSE <<HexChars[(g % 16) + 1]>>
             \o HexDigits((g * 75 + 74) % 65537, n - 1)

\* hmac.new(key, message, sha256).hexdigest(): a deterministic keyed digest of
\* 64 hexadecimal characters.  The digest function itself is library code; it
\* is modelled by a small keyed mixing function with the same shape.
hexdigest(key, message) == HexDigits(Mix(Mix(7, key), message), 64)

\* A plausible slip: signature[:6], which gives a token of 10 characters.
generate_api_key_short(user_id, secret) ==
    LET message   == user_id \o <<":">> \o secret
        signature == hexdigest(secret, message)
    IN  mcp_ \o SubSeq(signature, 1, 6)

generate_api_key(user_id, secret) ==
    LET message   == user_id \o <<":">> \o secret
        signature == hexdigest(secret, message)
    IN  mcp_ \o SubSeq(signature, 1, 32)

(***************************************************************************)
(* Credential verifier and principal resolution                            *)
(***************************************************************************)
\* A plausible slip: the marker check is dropped.
verify_api_key_no_marker(api_key) == Len(api_key) > 10

\* AuthenticationMiddleware.verify_api_key
verify_api_key(api_key) ==
    IF ~StartsWith(api_key, mcp_) THEN FALSE
    ELSE Len(api_key) > 10

\* A plausible slip: a key of ten characters passes one of the verifiers.
bearer_verify_api_key_from_ten(api_key) ==
    IF ~StartsWith(api_key, mcp_) THEN FALSE
    ELSE Len(api_key) >= 10

\* APIKeyAuth.verify_api_key
bearer_verify_api_key(api_key) ==
    IF ~StartsWith(api_key, mcp_) THEN FALSE
    ELSE Len(api_key) > 10

demo_user == <<"d", "e", "m", "o", "_", "u", "s", "e", "r">>

\* AuthenticationMiddleware.get_user_from_api_key
get_user_from_api_key(api_key) ==
    [user_id     |-> demo_user,
     permissions |-> <<"viewer", "moderator">>,
     tenant_id   |-> "demo_tenant"]

(***************************************************************************)
(* Permission evaluation                                                   *)
(***************************************************************************)
\* A plausible slip: all() instead of any().
validate_permissions_all(required_permissions, user_permissions) ==
    \A i \in 1..Len(required_permissions) :
        \E j \in 1..Len(user_permissions) :
            user_permissions[j] = required_permissions[i]

\* any(perm in user_permissions for perm in required_permissions)
validate_permissions(required_permissions, user_permissions) ==
    \E i \in 1..Len(required_permissions) :
        \E j \in 1..Len(user_permissions) :
            user_permissions[j] = required_permissions[i]

(***************************************************************************)
(* Request gate: AuthenticationMiddleware                                  *)
(***************************************************************************)
\* The default list of AuthenticationMiddleware.__init__, which lacks the
\* credential-issuance endpoint.
excluded_paths_default == {"/health", "/docs", "/openapi.json", "/redoc"}

\* excluded_paths as configured by app.add_middleware in main.py
excluded_paths ==
    {"/health", "/docs", "/openapi.json", "/redoc", "/generate-api-key"}

\* A plausible slip: `if api_key is None`.
ApiKeyMissing_is_none(api_key) == api_key = None

\* `if not api_key`
ApiKeyMissing(api_key) == ~Truthy(api_key)

\* `if api_key.startswith("Bearer "): api_key = api_key.replace("Bearer ", "")`
NormalizeBearer(api_key) ==
    IF StartsWith(api_key, Bearer_) THEN Replace(api_key, Bearer_, <<>>)
    ELSE api_key

\* request.headers.get("X-API-Key") or request.headers.get("Authorization")
HeaderKey(xkey, auth) == PyOr(xkey, auth)

PassThrough ==
    [proceed |-> TRUE, status |-> 0, detail |-> "", headers_read |-> FALSE,
     verified |-> "not_called", user |-> None, api_key |-> None]

Reject(detail, verified) ==
    [proceed |-> FALSE, status |-> 401, detail |-> detail,
     headers_read |-> TRUE, verified |-> verified,
     user |-> None, api_key |-> None]

Accept(api_key) ==
    [proceed |-> TRUE, status |-> 0, detail |-> "", headers_read |-> TRUE,
     verified |-> "ok", user |-> Some(get_user_from_api_key(api_key)),
     api_key |-> Some(api_key)]

\* A plausible slip: the 401 response for a failed verification is built but
\* not returned, so the request goes on to the lines that attach the context
\* and call call_next.
dispatch_no_short_circuit(path, xkey, auth) ==
    IF path \in excluded_paths THEN PassThrough
    ELSE LET api_key == HeaderKey(xkey, auth)
         IN  IF ApiKeyMissing(api_key)
             THEN Reject("API key required", "not_called")
             ELSE IF ~verify_api_key(NormalizeBearer(api_key[1]))
                  THEN [Accept(NormalizeBearer(api_key[1]))
                           EXCEPT !.verified = "failed"]
                  ELSE Accept(NormalizeBearer(api_key[1]))

\* AuthenticationMiddleware.dispatch, up to `await call_next(request)`:
\* what the gate decides for a request with this path and these two headers.
dispatch(path, xkey, auth) ==
    IF path \in excluded_paths THEN PassThrough
    ELSE LET api_key == HeaderKey(xkey, auth)
         IN  IF ApiKeyMissing(api_key)
             THEN Reject("API key required", "not_called")
             ELSE IF ~verify_api_key(NormalizeBearer(api_key[1]))
                  THEN Reject("Invalid API key", "failed")
                  ELSE Accept(NormalizeBearer(api_key[1]))

NoState == [user |-> None, api_key |-> None]

\* A plausible slip: the context is kept on the middleware object, which all
\* requests share, instead of on the request.
AttachState_shared(st, r, user, api_key) ==
    [q \in DOMAIN st |-> [user |-> user, api_key |-> api_key]]

\* request.state.user = ...; request.state.api_key = api_key
AttachState(st, r, user, api_key) ==
    [st EXCEPT ![r] = [user |-> user, api_key |-> api_key]]

(***************************************************************************)
(* Routes (app/main.py)                                                    *)
(***************************************************************************)
\* mcp._tools: the tools registered by create_discord_tools
ToolRegistry ==
    {"send_message", "get_messages", "get_channel_info", "search_messages",
     "delete_message", "ban_user", "kick_user", "get_guild_info"}

DocsPaths == {"/docs", "/openapi.json", "/redoc"}

RoutePaths ==
    {"/health", "/generate-api-key", "/mcp/tools", "/mcp/call-tool"}
        \cup DocsPaths

\* The PermissionChecker dependencies a route declares, each given by its
\* required_permissions list.  No route of main.py declares one.
RouteCheckers(path) == {}

NoResp ==
    [status |-> 0, detail |-> "", api_key |-> None, result |-> "",
     error |-> ""]

Idle ==
    [pc |-> "idle", path |-> "", xkey |-> None, auth |-> None,
     tool |-> "", user_id |-> None, verified |-> "not_called",
     headers_read |-> FALSE, handler_ran |-> FALSE, platform |-> "",
     outcome |-> "", got |-> 0]

\* _bot_instance = None, and no DiscordBot constructed or closed so far.
\* instance is 0 for None and else the number of the DiscordBot object, the
\* objects being numbered in the order of their construction.
NoBot ==
    [instance |-> 0, is_ready |-> FALSE, task |-> "none", constructed |-> 0,
     started |-> 0, closed |-> 0]

\* A tool call with no call in progress.
NoCall == [pc |-> "idle", got |-> 0]

NoPerm ==
    [required |-> <<>>, user |-> <<>>, result |-> "none",
     principal |-> None, status |-> 0]

\* No tool handler run on its own.
NoToolRun ==
    [tool |-> "", get_raises |-> FALSE, target_known |-> FALSE,
     member_known |-> FALSE, fail_at |-> 0, pc |-> "none", op |-> "",
     raised |-> FALSE, success |-> FALSE, error |-> "", calls |-> <<>>]

NoSearch == [history |-> <<>>, query |-> <<>>, limit |-> 0, result |-> None]

NoVer == [token |-> <<>>, bearer |-> "none", middleware |-> "none"]

\* No token has a record in the credential store.
NoGrants == [t \in {} |-> <<>>]

NoGen ==
    [user_id |-> <<>>, secret |-> <<>>, token |-> None, again |-> None,
     verified |-> "none"]

(***************************************************************************)
(* Permission checker (a route dependency)                                 *)
(***************************************************************************)
\* PermissionChecker(required_permissions).__call__(request): the status it
\* ends with, 200 standing for `return True`.
\* Python truthiness of an Optional[dict]: None and {} are falsy.
TruthyDict(opt) == opt # None /\ DOMAIN opt[1] # {}

\* user.get('permissions', [])
get_permissions(user) ==
    IF "permissions" \in DOMAIN user THEN user.permissions ELSE <<>>

\* A plausible slip: user['permissions'] guarded as a sign of a missing
\* authentication.
PermissionChecker_requires_entry(required_permissions, st) ==
    IF ~TruthyDict(st.user) THEN 401
    ELSE IF "permissions" \notin DOMAIN st.user[1] THEN 401
         ELSE IF ~validate_permissions(required_permissions,
                                       st.user[1].permissions)
              THEN 403
              ELSE 200

PermissionChecker(required_permissions, st) ==
    IF ~TruthyDict(st.user) THEN 401
    ELSE IF ~validate_permissions(required_permissions,
                                  get_permissions(st.user[1]))
         THEN 403
         ELSE 200

\* The status of the first dependency of the route that raises, or 200.
DependencyStatus(path, st) ==
    IF \E c \in RouteCheckers(path) : PermissionChecker(c, st) = 401 THEN 401
    ELSE IF \E c \in RouteCheckers(path) : PermissionChecker(c, st) = 403
         THEN 403
         ELSE 200

(***************************************************************************)
(* Request inputs                                                          *)
(***************************************************************************)
alice == <<"a", "l", "i", "c", "e">>

tok_alice == generate_api_key(alice, api_key_secret)

tok_demo == generate_api_key(demo_user, api_key_secret)

garbage == <<"g", "a", "r", "b", "a", "g", "e">>

garbage_long == garbage \o <<"_", "k", "e", "y", "_", "1">>

\* "mcp_aaaaaa": the marker and 10 characters in all.
mcp_10 == mcp_ \o <<"a", "a", "a", "a", "a", "a">>

\* "mcp_aaaaaaa": 11 characters, never returned by generate_api_key.
forged == mcp_ \o <<"a", "a", "a", "a", "a", "a", "a">>

\* "Bearer mcp_aaaa Bearer aaa"
bearer_twice ==
    Bearer_ \o mcp_ \o <<"a", "a", "a", "a", " ">> \o Bearer_
        \o <<"a", "a", "a">>

\* "mcp_Bearer a": a well-formed token with the scheme's text inside it.
inner_bearer == mcp_ \o Bearer_ \o <<"a">>

In(path, xkey, auth, tool, user_id) ==
    [path |-> path, xkey |-> xkey, auth |-> auth, tool |-> tool,
     user_id |-> user_id]

\* The query and body parameters a path reads: tool_name on /mcp/call-tool,
\* user_id on /generate-api-key.
Params(path, tools, user_ids) ==
    IF path = "/mcp/call-tool"
    THEN {<<t, None>> : t \in tools}
    ELSE IF path = "/generate-api-key"
         THEN {<<"", Some(u)>> : u \in user_ids}
         ELSE {<<"", None>>}

Inputs(paths, headers, tools, user_ids) ==
    UNION {{In(p, h[1], h[2], q[1], q[2]) : q \in Params(p, tools, user_ids)}
           : <<p, h>> \in paths \X headers}

XKeyValues ==
    {None, Some(<<>>), Some(garbage), Some(garbage_long), Some(mcp_10),
     Some(forged), Some(tok_alice), Some(Bearer_ \o tok_demo)}

AuthValues ==
    {None, Some(<<>>), Some(Bearer_), Some(Bearer_ \o tok_alice),
     Some(Bearer_ \o forged), Some(tok_demo), Some(bearer_twice)}

\* Every combination of path, headers and parameters: one request at a time.
AllInputs ==
    Inputs(RoutePaths \cup {"/health/", "/mcp"}, XKeyValues \X AuthValues,
           ToolRegistry \cup {"unknown_tool"}, {alice, demo_user, <<>>})

\* The requests that run concurrently.
FewInputs ==
    Inputs({"/health"}, {<<None, None>>}, {}, {})
    \cup Inputs({"/mcp/call-tool"},
                {<<None, None>>, <<Some(garbage), None>>}, {"ban_user"}, {})
    \cup Inputs({"/mcp/call-tool"},
                {<<Some(forged), None>>, <<None, Some(Bearer_ \o tok_alice)>>},
                {"send_message", "ban_user"}, {})
    \cup Inputs({"/mcp/call-tool"},
                {<<Some(inner_bearer), None>>,
                 <<None, Some(Bearer_ \o inner_bearer)>>},
                {"ban_user"}, {})

(***************************************************************************)
(* State                                                                   *)
(*   req[r]    the request in slot r: its inputs, where its handling is,   *)
(*             and what the gate and the handler did for it                *)
(*   state[r]  request.state of the request in slot r                      *)
(*   resp[r]   the response of the request in slot r                       *)
(*   issued    the tokens /generate-api-key has returned so far            *)
(*   revoked   the tokens an administrator has revoked so far              *)
(*   bot       _bot_instance of app/discord/bot.py                         *)
(*   perm      inputs and result of a permission evaluation                *)
(*   gen       inputs and results of issuing a credential                  *)
(*   grants    the permission set the credential store holds for a token   *)
(*   life      where the process is: "init" before anything runs, then     *)
(*             either "mcp" (the MCP server run on its own) or the         *)
(*             lifespan of the HTTP application: "wait_ready" during       *)
(*             startup, "serving", "stopped" after shutdown                *)
(*   direct    the tool calls in flight when the MCP server runs on its    *)
(*             own                                                         *)
(*   call      a tool handler run on its own: the tool, what its bot       *)
(*             operation meets, and what the handler does                  *)
(*   search    inputs and result of search_messages                        *)
(*   ver       a token and the verdicts of the two verifiers on it         *)
(***************************************************************************)
Init ==
    /\ req = [r \in Req |-> Idle]
    /\ state = [r \in Req |-> NoState]
    /\ resp = [r \in Req |-> NoResp]
    /\ issued = {}
    /\ revoked = {}
    /\ bot = NoBot
    /\ perm = NoPerm
    /\ gen = NoGen
    /\ grants = NoGrants
    /\ life = "init"
    /\ direct = [d \in Direct |-> NoCall]
    /\ call = NoToolRun
    /\ search = NoSearch
    /\ ver = NoVer

Respond(r, ran, status, detail, api_key, result) ==
    /\ resp' = [resp EXCEPT ![r] = [status |-> status, detail |-> detail,
                                    api_key |-> api_key, result |-> result,
                                    error |-> ""]]
    /\ req' = [req EXCEPT ![r].pc = "responded", ![r].handler_ran = ran]

\* A request arrives in slot r and AuthenticationMiddleware.dispatch runs up to
\* its return or its `await call_next(request)`.
Dispatch(r, in) ==
    /\ life = "serving"
    /\ req[r].pc = "idle"
    /\ LET out == dispatch(in.path, in.xkey, in.auth)
       IN  /\ req' = [req EXCEPT ![r] =
                        [Idle EXCEPT !.pc = IF out.proceed THEN "handler"
                                            ELSE "responded",
                                     !.path = in.path,
                                     !.xkey = in.xkey,
                                     !.auth = in.auth,
                                     !.tool = in.tool,
                                     !.user_id = in.user_id,
                                     !.verified = out.verified,
                                     !.headers_read = out.headers_read]]
           /\ state' = IF out.user # None
                       THEN AttachState(state, r, out.user, out.api_key)
                       ELSE state
           /\ resp' = IF out.proceed THEN resp
                      ELSE [resp EXCEPT ![r] =
                              [NoResp EXCEPT !.status = out.status,
                                             !.detail = out.detail]]
    /\ UNCHANGED <<issued, revoked, bot, perm, gen, grants, life, direct,
                   call, search, ver>>

\* call_next reaches the route for one of `paths`: its dependencies are
\* resolved first, and a dependency that raises answers the request.
Route(r, paths, handler) ==
    /\ req[r].pc = "handler"
    /\ req[r].path \in paths
    /\ LET dep == DependencyStatus(req[r].path, state[r])
       IN  IF dep = 401
           THEN /\ Respond(r, FALSE, 401, "Authentication required", None, "")
                /\ UNCHANGED <<state, issued, revoked, bot, perm, gen, grants, life, direct,
                               call, search, ver>>
           ELSE IF dep = 403
                THEN /\ Respond(r, FALSE, 403, "Insufficient permissions", None, "")
                     /\ UNCHANGED <<state, issued, revoked, bot, perm, gen, grants, life, direct,
                                    call, search, ver>>
                ELSE handler

(***************************************************************************)
(* The shared Discord bot (app/discord/bot.py)                             *)
(***************************************************************************)
\* A plausible slip: `if _bot_instance is None or not _bot_instance.is_ready`.
NeedsBot_or_not_ready(b) == b.instance = 0 \/ ~b.is_ready

\* `if _bot_instance is None`
NeedsBot(b) == b.instance = 0

\* _bot_instance = DiscordBot(token); asyncio.create_task(start_bot())
NewBot(b) ==
    [b EXCEPT !.instance = b.constructed + 1,
              !.is_ready = FALSE,
              !.task = "running",
              !.constructed = b.constructed + 1,
              !.started = b.started + 1]

\* get_discord_bot called by the handler of request r, up to its first wait:
\* a caller that finds no instance constructs the bot, starts start_bot as a
\* background task and waits for is_ready; a caller that finds an instance
\* returns it at once.  No other coroutine runs between the handler's start
\* and this point.
GetDiscordBot(r) ==
    /\ IF NeedsBot(bot)
       THEN /\ bot' = NewBot(bot)
            /\ req' = [req EXCEPT ![r].pc = "wait_ready",
                                  ![r].handler_ran = TRUE]
       ELSE /\ req' = [req EXCEPT ![r].pc = "have_bot",
                                  ![r].handler_ran = TRUE,
                                  ![r].got = bot.instance]
            /\ UNCHANGED bot
    /\ UNCHANGED <<state, resp, issued, revoked, perm, gen, grants, life, direct,
                   call, search, ver>>

\* health_check, up to the first wait of `await get_discord_bot()`
HealthCheck(r) ==
    Route(r, {"/health"}, GetDiscordBot(r))

\* generate_api_key_endpoint
GenerateApiKeyEndpoint(r) ==
    Route(r, {"/generate-api-key"},
          LET api_key == generate_api_key(req[r].user_id[1], api_key_secret)
          IN  /\ Respond(r, TRUE, 200, "", Some(api_key), "")
              /\ issued' = issued \cup {api_key}
              /\ UNCHANGED <<state, revoked, bot, perm, gen, grants, life, direct,
                             call, search, ver>>)

\* list_mcp_tools: user.get on a missing user raises, which the general
\* exception handler answers.
ListMcpTools(r) ==
    Route(r, {"/mcp/tools"},
          /\ IF state[r].user = None
             THEN Respond(r, TRUE, 500, "Internal server error", None, "")
             ELSE Respond(r, TRUE, 200, "", None, "tools")
          /\ UNCHANGED <<state, issued, revoked, bot, perm, gen, grants, life, direct,
                         call, search, ver>>)

\* call_mcp_tool, up to the first wait of the tool's
\* `await get_discord_bot()`: the 404 raised for an unknown tool is raised
\* inside the try block and caught by its `except Exception`, which raises
\* the 500.
CallMcpTool(r) ==
    Route(r, {"/mcp/call-tool"},
          IF state[r].user = None
          THEN /\ Respond(r, TRUE, 500, "Internal server error", None, "")
               /\ UNCHANGED <<state, issued, revoked, bot, perm, gen, grants, life, direct,
                              call, search, ver>>
          ELSE IF req[r].tool \notin ToolRegistry
               THEN /\ Respond(r, TRUE, 500,
                               "Tool execution failed: 404: Tool not found",
                               None, "")
                    /\ UNCHANGED <<state, issued, revoked, bot, perm, gen, grants, life, direct,
                                   call, search, ver>>
               ELSE GetDiscordBot(r))

\* The documentation routes FastAPI serves.
Docs(r) ==
    Route(r, DocsPaths,
          /\ Respond(r, TRUE, 200, "", None, "docs")
          /\ UNCHANGED <<state, issued, revoked, bot, perm, gen, grants, life, direct,
                         call, search, ver>>)

\* No route matches the path: the router answers 404.
NotFound(r) ==
    /\ req[r].pc = "handler"
    /\ req[r].path \notin RoutePaths
    /\ resp' = [resp EXCEPT ![r] = [NoResp EXCEPT !.status = 404,
                                                  !.detail = "Not Found"]]
    /\ req' = [req EXCEPT ![r].pc = "responded"]
    /\ UNCHANGED <<state, issued, revoked, bot, perm, gen, grants, life, direct,
                   call, search, ver>>

(***************************************************************************)
(* The shared Discord bot, continued                                       *)
(***************************************************************************)
\* `while not _bot_instance.is_ready: await asyncio.sleep(0.1)` ends for the
\* handler of request r.  The lifespan's call has constructed the bot and has
\* returned before any request is handled, so no handler of a request enters
\* this wait, and no specification below has this step.
WaitReady(r) ==
    /\ req[r].pc = "wait_ready"
    /\ bot.is_ready
    /\ req' = [req EXCEPT ![r].pc = "have_bot", ![r].got = bot.instance]
    /\ UNCHANGED <<state, resp, issued, revoked, bot, perm, gen, grants, life, direct,
                   call, search, ver>>

\* on_ready: the bot has logged in.
on_ready ==
    /\ bot.instance # 0
    /\ bot.task = "running"
    /\ ~bot.is_ready
    /\ bot' = [bot EXCEPT !.is_ready = TRUE]
    /\ UNCHANGED <<req, state, resp, issued, revoked, perm, gen, grants, life, direct,
                   call, search, ver>>

\* start_bot: self.bot.start(token) raises (an empty or rejected token); the
\* background task ends and on_ready never runs.
start_bot_fails ==
    /\ bot.instance # 0
    /\ bot.task = "running"
    /\ ~bot.is_ready
    /\ bot' = [bot EXCEPT !.task = "failed"]
    /\ UNCHANGED <<req, state, resp, issued, revoked, perm, gen, grants, life, direct,
                   call, search, ver>>

\* health_check after get_discord_bot returned.
HealthRespond(r) ==
    /\ req[r].pc = "have_bot"
    /\ req[r].path = "/health"
    /\ Respond(r, TRUE, 200, "", None,
               IF bot.is_ready THEN "ready" ELSE "not_ready")
    /\ UNCHANGED <<state, issued, revoked, bot, perm, gen, grants, life, direct,
                   call, search, ver>>

GuildTools == {"ban_user", "kick_user", "get_guild_info"}

\* str(e) of the exception a bot operation raises: the ValueError of a
\* failed lookup, or the error of the platform's client library.
FailureText(tool, outcome) ==
    IF outcome = "not_found"
    THEN IF tool \in GuildTools THEN "Guild not found"
         ELSE "Channel not found"
    ELSE IF outcome = "member_not_found" THEN "Member not found in guild"
         ELSE "platform error"

\* The tool called through /mcp/call-tool after get_discord_bot returned:
\* the bot operation looks its target up in the client's cache, which is
\* filled once the bot is ready, and then calls the platform.  The tool
\* catches every error and returns {"success": False, "error": str(e)},
\* which call_mcp_tool returns as the result of the call.
ToolCall(r, outcome) ==
    /\ req[r].pc = "have_bot"
    /\ req[r].path = "/mcp/call-tool"
    /\ outcome # "not_found" => bot.is_ready
    /\ resp' = [resp EXCEPT ![r] =
                  [status |-> 200, detail |-> "", api_key |-> None,
                   result |-> IF outcome = "done" THEN "success"
                              ELSE "error",
                   error |-> IF outcome = "done" THEN ""
                             ELSE FailureText(req[r].tool, outcome)]]
    /\ req' = [req EXCEPT ![r].pc = "responded",
                          ![r].outcome = outcome,
                          ![r].platform = IF outcome = "not_found" THEN ""
                                          ELSE req[r].tool]
    /\ UNCHANGED <<state, issued, revoked, bot, perm, gen, grants, life, direct,
                   call, search, ver>>

ToolOutcomes == {"not_found", "done", "platform_error"}

\* The response is sent and the request, with its request.state, is gone.
Finish(r) ==
    /\ req[r].pc = "responded"
    /\ req' = [req EXCEPT ![r] = Idle]
    /\ state' = [state EXCEPT ![r] = NoState]
    /\ resp' = [resp EXCEPT ![r] = NoResp]
    /\ UNCHANGED <<issued, revoked, bot, perm, gen, grants, life, direct,
                   call, search, ver>>

(***************************************************************************)
(* The lifespan of the HTTP application (app/main.py).  The server sends   *)
(* a request to the application only after the lifespan's startup has      *)
(* completed, and runs the shutdown once no request is being handled.      *)
(***************************************************************************)
\* lifespan, up to the first wait of `bot = await get_discord_bot()`.  An
\* application that has been shut down can be started again.
LifespanStartup ==
    /\ life \in {"init", "stopped"}
    /\ bot.constructed < MaxBots
    /\ IF NeedsBot(bot)
       THEN /\ bot' = NewBot(bot)
            /\ life' = "wait_ready"
       ELSE /\ life' = "serving"
            /\ UNCHANGED bot
    /\ UNCHANGED <<req, state, resp, issued, revoked, perm, gen, grants,
                   direct,
                   call, search, ver>>

\* The wait of the lifespan's get_discord_bot ends, the instance is returned,
\* and the lifespan reaches its `yield`.
LifespanReady ==
    /\ life = "wait_ready"
    /\ bot.is_ready
    /\ life' = "serving"
    /\ UNCHANGED <<req, state, resp, issued, revoked, bot, perm, gen, grants,
                   direct,
                   call, search, ver>>

\* stop_bot and `_bot_instance = None`
Shutdown(b) ==
    IF b.instance # 0
    THEN [b EXCEPT !.instance = 0, !.is_ready = FALSE, !.task = "closed",
                   !.closed = b.closed + 1]
    ELSE b

\* lifespan after its `yield`: `await shutdown_discord_bot()`
LifespanShutdown ==
    /\ life = "serving"
    /\ \A r \in Req : req[r].pc = "idle"
    /\ bot' = Shutdown(bot)
    /\ life' = "stopped"
    /\ UNCHANGED <<req, state, resp, issued, revoked, perm, gen, grants,
                   direct,
                   call, search, ver>>

(***************************************************************************)
(* The MCP server run on its own (run_mcp): its clients call the tools     *)
(* directly and concurrently; no lifespan runs.                            *)
(***************************************************************************)
\* `python -m app.main mcp`
RunMcp ==
    /\ life = "init"
    /\ life' = "mcp"
    /\ UNCHANGED <<req, state, resp, issued, revoked, bot, perm, gen, grants,
                   direct,
                   call, search, ver>>

\* A tool is called: `bot = await get_discord_bot()`, up to its first wait.
McpToolCall(d) ==
    /\ life = "mcp"
    /\ direct[d].pc = "idle"
    /\ IF NeedsBot(bot)
       THEN /\ bot' = NewBot(bot)
            /\ direct' = [direct EXCEPT ![d].pc = "wait_ready"]
       ELSE /\ direct' = [direct EXCEPT ![d].pc = "have_bot",
                                        ![d].got = bot.instance]
            /\ UNCHANGED bot
    /\ UNCHANGED <<req, state, resp, issued, revoked, perm, gen, grants,
                   life,
                   call, search, ver>>

\* `while not _bot_instance.is_ready: await asyncio.sleep(0.1)` ends for a
\* tool call.
McpWaitReady(d) ==
    /\ direct[d].pc = "wait_ready"
    /\ bot.is_ready
    /\ direct' = [direct EXCEPT ![d].pc = "have_bot",
                                ![d].got = bot.instance]
    /\ UNCHANGED <<req, state, resp, issued, revoked, bot, perm, gen, grants,
                   life,
                   call, search, ver>>

\* The tool runs its bot operation and returns its result.
McpToolReturn(d) ==
    /\ direct[d].pc = "have_bot"
    /\ direct' = [direct EXCEPT ![d] = NoCall]
    /\ UNCHANGED <<req, state, resp, issued, revoked, bot, perm, gen, grants,
                   life,
                   call, search, ver>>

\* An administrator revokes an issued credential.
Revoke(t) ==
    /\ t \in issued \ revoked
    /\ revoked' = revoked \cup {t}
    /\ UNCHANGED <<req, state, resp, issued, bot, perm, gen, grants, life, direct,
                   call, search, ver>>

\* An administrator records, or changes, the permission set the credential
\* store holds for an issued credential.
Grant(t, permissions) ==
    /\ t \in issued
    /\ grants' = [u \in DOMAIN grants \cup {t} |->
                    IF u = t THEN permissions ELSE grants[u]]
    /\ grants' # grants
    /\ UNCHANGED <<req, state, resp, issued, revoked, bot, perm, gen, life, direct,
                   call, search, ver>>

(***************************************************************************)
(* Specifications                                                          *)
(***************************************************************************)
Environment ==
    \/ on_ready
    \/ start_bot_fails

Lifespan ==
    \/ LifespanStartup
    \/ LifespanReady

\* The process: either the HTTP application with its lifespan and concurrent
\* requests to /health and /mcp/call-tool, or the MCP server on its own with
\* concurrent tool calls.
Next ==
    \/ \E r \in Req : \E in \in FewInputs : Dispatch(r, in)
    \/ \E r \in Req :
          \/ HealthCheck(r)
          \/ CallMcpTool(r)
          \/ HealthRespond(r)
          \/ \E outcome \in ToolOutcomes : ToolCall(r, outcome)
          \/ Finish(r)
    \/ Environment
    \/ Lifespan
    \/ LifespanShutdown
    \/ RunMcp
    \/ \E d \in Direct :
          \/ McpToolCall(d)
          \/ McpWaitReady(d)
          \/ McpToolReturn(d)

Spec == Init /\ [][Next]_vars

\* The event loop keeps running whatever can run, and a caller of
\* get_discord_bot whose wait can end is resumed.
Fairness ==
    /\ WF_vars(Next)
    /\ WF_vars(LifespanReady)
    /\ \A d \in Direct : WF_vars(McpWaitReady(d))

SpecFair == Spec /\ Fairness

\* One request at a time, over every combination of inputs, with the
\* revocation of issued credentials.
NextGate ==
    \/ \E in \in AllInputs : Dispatch(1, in)
    \/ HealthCheck(1)
    \/ GenerateApiKeyEndpoint(1)
    \/ ListMcpTools(1)
    \/ CallMcpTool(1)
    \/ Docs(1)
    \/ NotFound(1)
    \/ HealthRespond(1)
    \/ \E outcome \in ToolOutcomes : ToolCall(1, outcome)
    \/ Finish(1)
    \/ Environment
    \/ Lifespan
    \/ \E t \in issued : Revoke(t)

SpecGate == Init /\ [][NextGate]_vars

\* One request at a time, issuing credentials and presenting them, with an
\* administrator who maintains the permission sets of the credential store.
StoreInputs ==
    Inputs({"/generate-api-key"}, {<<None, None>>}, {}, {alice, demo_user})
    \cup Inputs({"/mcp/tools"},
                {<<None, None>>, <<Some(tok_alice), None>>,
                 <<None, Some(Bearer_ \o tok_demo)>>}, {}, {})

GrantedPermissions == {<<"viewer">>, <<"viewer", "moderator">>, <<"admin">>}

NextStore ==
    \/ \E in \in StoreInputs : Dispatch(1, in)
    \/ GenerateApiKeyEndpoint(1)
    \/ ListMcpTools(1)
    \/ Finish(1)
    \/ on_ready
    \/ Lifespan
    \/ \E t \in issued : \E permissions \in GrantedPermissions :
          Grant(t, permissions)

SpecStore == Init /\ [][NextStore]_vars

(***************************************************************************)
(* Permission evaluation on its own: validate_permissions applied to every *)
(* pair of permission lists.                                               *)
(***************************************************************************)
PermLabels == {"viewer", "moderator", "admin"}

PermLists == UNION {[1..n -> PermLabels] : n \in 0..MaxPermLen}

\* The values of request.state.user a permission check is run on: none, a
\* Principal without a permissions entry, and a Principal with the
\* permissions U.
Principals(U) ==
    {None,
     Some([user_id |-> demo_user, tenant_id |-> "demo_tenant"]),
     Some([get_user_from_api_key(<<>>) EXCEPT !.permissions = U])}

InitPerm ==
    /\ req = [r \in Req |-> Idle]
    /\ state = [r \in Req |-> NoState]
    /\ resp = [r \in Req |-> NoResp]
    /\ issued = {}
    /\ revoked = {}
    /\ bot = NoBot
    /\ gen = NoGen
    /\ grants = NoGrants
    /\ life = "init"
    /\ direct = [d \in Direct |-> NoCall]
    /\ call = NoToolRun
    /\ search = NoSearch
    /\ ver = NoVer
    /\ perm \in UNION {{[required |-> R, user |-> U, result |-> "none",
                         principal |-> P, status |-> 0] :
                        R \in PermLists, P \in Principals(U)} :
                       U \in PermLists}

ValidatePermissions ==
    /\ perm.result = "none"
    /\ perm' = [perm EXCEPT !.result =
                  IF validate_permissions(perm.required, perm.user)
                  THEN "true" ELSE "false"]
    /\ UNCHANGED <<req, state, resp, issued, revoked, bot, gen, grants, life, direct,
                   call, search, ver>>

\* PermissionChecker(perm.required) is called on a request whose
\* request.state.user is perm.principal.
CheckPermission ==
    /\ perm.status = 0
    /\ perm' = [perm EXCEPT !.status =
                  PermissionChecker(perm.required,
                                    [user |-> perm.principal,
                                     api_key |-> None])]
    /\ UNCHANGED <<req, state, resp, issued, revoked, bot, gen, grants, life, direct,
                   call, search, ver>>

NextPerm ==
    \/ ValidatePermissions
    \/ CheckPermission

SpecPerm == InitPerm /\ [][NextPerm]_vars

(***************************************************************************)
(* A tool handler on its own (app/mcp/tools.py) with the bot operation it  *)
(* calls (app/discord/bot.py), over every tool and everything the          *)
(* operation can meet: whether get_discord_bot raises, whether the target  *)
(* is in the client's cache, and which of its platform calls fails.        *)
(***************************************************************************)
\* The calls to the platform a bot operation makes once it has resolved its
\* target, in order.  get_channel_info and get_guild_info read the client's
\* cache only.
PlatformCalls(tool) ==
    IF tool = "send_message" THEN <<"channel.send">>
    ELSE IF tool \in {"get_messages", "search_messages"}
         THEN <<"channel.history">>
    ELSE IF tool = "delete_message"
         THEN <<"channel.fetch_message", "message.delete">>
    ELSE IF tool = "ban_user" THEN <<"bot.fetch_user", "guild.ban">>
    ELSE IF tool = "kick_user" THEN <<"member.kick">>
    ELSE <<>>

Raised(error, calls) == [raised |-> TRUE, error |-> error, calls |-> calls]

Returned(calls) == [raised |-> FALSE, error |-> "", calls |-> calls]

\* A plausible slip: the platform calls are made before the target is
\* looked at.
BotOperation_acts_first(tool, w) ==
    IF w.fail_at \in 1..Len(PlatformCalls(tool))
    THEN Raised(FailureText(tool, "platform_error"),
                SubSeq(PlatformCalls(tool), 1, w.fail_at))
    ELSE IF ~w.target_known
         THEN Raised(FailureText(tool, "not_found"), PlatformCalls(tool))
         ELSE Returned(PlatformCalls(tool))

\* DiscordBot.send_message, get_messages, get_channel_info, search_messages,
\* delete_message, ban_user, kick_user, get_guild_info: the channel or guild
\* is looked up in the client's cache (and the member in the guild's, for
\* kick_user) and a failed lookup raises ValueError; then the platform calls
\* are made in order, and the first one that fails raises.  calls are the
\* platform calls made, the failing one included.
BotOperation(tool, w) ==
    IF ~w.target_known
    THEN Raised(FailureText(tool, "not_found"), <<>>)
    ELSE IF tool = "kick_user" /\ ~w.member_known
         THEN Raised(FailureText(tool, "member_not_found"), <<>>)
         ELSE IF w.fail_at \in 1..Len(PlatformCalls(tool))
              THEN Raised(FailureText(tool, "platform_error"),
                          SubSeq(PlatformCalls(tool), 1, w.fail_at))
              ELSE Returned(PlatformCalls(tool))

\* A plausible slip: the handler has no try block.
ToolHandler_no_try(tool, w) ==
    IF w.get_raises
    THEN [op |-> "not_called", raised |-> TRUE, success |-> FALSE,
          error |-> "", calls |-> <<>>]
    ELSE LET out == BotOperation(tool, w)
         IN  IF out.raised
             THEN [op |-> "raised", raised |-> TRUE, success |-> FALSE,
                   error |-> "", calls |-> out.calls]
             ELSE [op |-> "returned", raised |-> FALSE, success |-> TRUE,
                   error |-> "", calls |-> out.calls]

\* A tool of create_discord_tools:
\*   try: bot = await get_discord_bot(); result = await bot.<operation>(...)
\*        return {"success": True, "data": result}
\*   except Exception as e: return {"success": False, "error": str(e)}
ToolHandler(tool, w) ==
    IF w.get_raises
    THEN [op |-> "not_called", raised |-> FALSE, success |-> FALSE,
          error |-> "bot unavailable", calls |-> <<>>]
    ELSE LET out == BotOperation(tool, w)
         IN  IF out.raised
             THEN [op |-> "raised", raised |-> FALSE, success |-> FALSE,
                   error |-> out.error, calls |-> out.calls]
             ELSE [op |-> "returned", raised |-> FALSE, success |-> TRUE,
                   error |-> "", calls |-> out.calls]

InitTool ==
    /\ req = [r \in Req |-> Idle]
    /\ state = [r \in Req |-> NoState]
    /\ resp = [r \in Req |-> NoResp]
    /\ issued = {}
    /\ revoked = {}
    /\ bot = NoBot
    /\ perm = NoPerm
    /\ gen = NoGen
    /\ grants = NoGrants
    /\ life = "init"
    /\ direct = [d \in Direct |-> NoCall]
    /\ search = NoSearch
    /\ ver = NoVer
    /\ call \in {[NoToolRun EXCEPT !.tool = t, !.get_raises = g,
                                   !.target_known = k, !.member_known = m,
                                   !.fail_at = f, !.pc = "called"] :
                 t \in ToolRegistry, g \in BOOLEAN, k \in BOOLEAN,
                 m \in BOOLEAN, f \in 0..2}

\* The tool handler runs to its end.
RunTool ==
    /\ call.pc = "called"
    /\ LET out == ToolHandler(call.tool, call)
       IN  call' = [call EXCEPT !.pc = "ended",
                                !.op = out.op,
                                !.raised = out.raised,
                                !.success = out.success,
                                !.error = out.error,
                                !.calls = out.calls]
    /\ UNCHANGED <<req, state, resp, issued, revoked, bot, perm, gen, grants,
                   life, direct, search, ver>>

SpecTool == InitTool /\ [][RunTool]_vars

(***************************************************************************)
(* Credential issuance on its own: generate_api_key applied to every       *)
(* user_id and secret of up to MaxIdLen characters, and the verifier       *)
(* applied to what it returns.                                             *)
(***************************************************************************)
Strings(chars, n) == UNION {[1..k -> chars] : k \in 0..n}

InitIssue ==
    /\ req = [r \in Req |-> Idle]
    /\ state = [r \in Req |-> NoState]
    /\ resp = [r \in Req |-> NoResp]
    /\ issued = {}
    /\ revoked = {}
    /\ bot = NoBot
    /\ perm = NoPerm
    /\ grants = NoGrants
    /\ life = "init"
    /\ direct = [d \in Direct |-> NoCall]
    /\ call = NoToolRun
    /\ search = NoSearch
    /\ ver = NoVer
    /\ gen \in {[NoGen EXCEPT !.user_id = u, !.secret = k] :
                u \in Strings({"a", "_"}, MaxIdLen),
                k \in Strings({"s", "1"}, MaxIdLen)}

\* api_key = generate_api_key(user_id, secret)
GenerateApiKey ==
    /\ gen.token = None
    /\ gen' = [gen EXCEPT !.token =
                 Some(generate_api_key(gen.user_id, gen.secret))]
    /\ UNCHANGED <<req, state, resp, issued, revoked, bot, perm, grants, life, direct,
                   call, search, ver>>

\* A second call with the same arguments.
GenerateApiKeyAgain ==
    /\ gen.token # None
    /\ gen.again = None
    /\ gen' = [gen EXCEPT !.again =
                 Some(generate_api_key(gen.user_id, gen.secret))]
    /\ UNCHANGED <<req, state, resp, issued, revoked, bot, perm, grants, life, direct,
                   call, search, ver>>

\* self.verify_api_key(api_key), for the key generate_api_key returned.
VerifyGenerated ==
    /\ gen.token # None
    /\ gen.verified = "none"
    /\ gen' = [gen EXCEPT !.verified =
                 IF verify_api_key(gen.token[1]) THEN "true" ELSE "false"]
    /\ UNCHANGED <<req, state, resp, issued, revoked, bot, perm, grants, life, direct,
                   call, search, ver>>

NextIssue ==
    \/ GenerateApiKey
    \/ GenerateApiKeyAgain
    \/ VerifyGenerated

SpecIssue == InitIssue /\ [][NextIssue]_vars

(***************************************************************************)
(* DiscordBot.search_messages on its own, over channel histories of up to  *)
(* MaxHistory messages (newest first, as channel.history yields them),     *)
(* every query and every limit up to MaxLimit.                             *)
(***************************************************************************)
\* str.lower(), on the letters of the contents and queries used here.
LowerChar(c) ==
    IF c = "A" THEN "a" ELSE IF c = "B" THEN "b" ELSE c

Lower(str) == [i \in 1..Len(str) |-> LowerChar(str[i])]

\* `sub in str` of two Python strings.
Contains(sub, str) ==
    \E i \in 0..(Len(str) - Len(sub)) : SubSeq(str, i + 1, i + Len(sub)) = sub

\* channel.history(limit=limit): the most recent `limit` messages of the
\* channel, newest first, each with its position in the channel's history.
History(history, limit) ==
    [i \in 1..(IF limit < Len(history) THEN limit ELSE Len(history)) |->
        [id |-> i, content |-> history[i]]]

\* async for message in ...: if query.lower() in message.content.lower():
\*     messages.append(...)
RECURSIVE SearchLoop(_, _, _)
SearchLoop(page, query, i) ==
    IF i > Len(page) THEN <<>>
    ELSE (IF Contains(Lower(query), Lower(page[i].content))
          THEN <<page[i].id>> ELSE <<>>)
         \o SearchLoop(page, query, i + 1)

\* A plausible slip: the whole history is scanned and the limit bounds the
\* matches.
search_messages_limit_on_matches(history, query, limit) ==
    LET found == SearchLoop(History(history, Len(history)), query, 1)
    IN  SubSeq(found, 1, IF limit < Len(found) THEN limit ELSE Len(found))

\* DiscordBot.search_messages, as the ids of the messages it returns.
search_messages(history, query, limit) ==
    SearchLoop(History(history, limit), query, 1)

Contents == {<<>>, <<"a", "b">>, <<"A", "B">>, <<"b">>}

Queries == {<<>>, <<"a">>, <<"B">>, <<"a", "B">>}

InitSearch ==
    /\ req = [r \in Req |-> Idle]
    /\ state = [r \in Req |-> NoState]
    /\ resp = [r \in Req |-> NoResp]
    /\ issued = {}
    /\ revoked = {}
    /\ bot = NoBot
    /\ perm = NoPerm
    /\ gen = NoGen
    /\ grants = NoGrants
    /\ life = "init"
    /\ direct = [d \in Direct |-> NoCall]
    /\ call = NoToolRun
    /\ ver = NoVer
    /\ search \in {[NoSearch EXCEPT !.history = h, !.query = q, !.limit = l] :
                   h \in Strings(Contents, MaxHistory), q \in Queries,
                   l \in 1..MaxLimit}

\* The search_messages tool: SearchMessagesInput admits limits from 1, and
\* the handler passes channel, query and limit on to the bot.
SearchMessages ==
    /\ search.result = None
    /\ search' = [search EXCEPT !.result =
                      Some(search_messages(search.history, search.query,
                                           search.limit))]
    /\ UNCHANGED <<req, state, resp, issued, revoked, bot, perm, gen, grants,
                   life, direct, call, ver>>

SpecSearch == InitSearch /\ [][SearchMessages]_vars

(***************************************************************************)
(* The two verifiers on their own, each applied to the same token: tokens  *)
(* with and without the marker, with the marker misspelt, displaced or     *)
(* doubled, of every length around the threshold.                          *)
(***************************************************************************)
TokenHeads ==
    {<<>>, mcp_, <<"m", "c", "p">>, <<"M", "c", "p", "_">>,
     <<"_">> \o mcp_, mcp_ \o mcp_}

Tokens ==
    {head \o [i \in 1..n |-> "a"] : head \in TokenHeads, n \in 0..MaxBody}

Verdict(ok) == IF ok THEN "accepted" ELSE "rejected"

InitVerify ==
    /\ req = [r \in Req |-> Idle]
    /\ state = [r \in Req |-> NoState]
    /\ resp = [r \in Req |-> NoResp]
    /\ issued = {}
    /\ revoked = {}
    /\ bot = NoBot
    /\ perm = NoPerm
    /\ gen = NoGen
    /\ grants = NoGrants
    /\ life = "init"
    /\ direct = [d \in Direct |-> NoCall]
    /\ call = NoToolRun
    /\ search = NoSearch
    /\ ver \in {[NoVer EXCEPT !.token = t] : t \in Tokens}

\* APIKeyAuth.__call__: self.verify_api_key(credentials.credentials)
VerifyBearer ==
    /\ ver.bearer = "none"
    /\ ver' = [ver EXCEPT !.bearer = Verdict(bearer_verify_api_key(ver.token))]
    /\ UNCHANGED <<req, state, resp, issued, revoked, bot, perm, gen, grants,
                   life, direct, call, search>>

\* AuthenticationMiddleware.dispatch: self.verify_api_key(api_key)
VerifyMiddleware ==
    /\ ver.middleware = "none"
    /\ ver' = [ver EXCEPT !.middleware = Verdict(verify_api_key(ver.token))]
    /\ UNCHANGED <<req, state, resp, issued, revoked, bot, perm, gen, grants,
                   life, direct, call, search>>

NextVerify ==
    \/ VerifyBearer
    \/ VerifyMiddleware

SpecVerify == InitVerify /\ [][NextVerify]_vars

(***************************************************************************)
(* Properties                                                              *)
(***************************************************************************)
Range(seq) == {seq[i] : i \in 1..Len(seq)}

UserIds == {alice, demo_user, <<>>}

\* The paths the gate is configured to let through, as the documentation of
\* the gate lists them.
ListedPaths ==
    {"/health", "/docs", "/openapi.json", "/redoc", "/generate-api-key"}

Empty(header) == header = None \/ header = Some(<<>>)

\* The credential the request in slot r presents: the X-API-Key header, or
\* else the Authorization header, without its Bearer scheme.
Presented(r) ==
    NormalizeBearer(HeaderKey(req[r].xkey, req[r].auth)[1])

WellFormed(token) ==
    /\ Len(token) > 10
    /\ SubSeq(token, 1, 4) = <<"m", "c", "p", "_">>

Rejected(r, detail) ==
    /\ req[r].pc = "responded"
    /\ resp[r].status = 401
    /\ resp[r].detail = detail
    /\ ~req[r].handler_ran
    /\ state[r] = NoState

\* C1: a request is given a Principal only for a token that the issuer has
\* produced.
C1_OnlyIssuedTokensResolve ==
    \A r \in Req :
        state[r].user # None => state[r].api_key[1] \in issued

\* C2: a request that presents the token issued for the principal identifier
\* P is given a Principal whose identifier is P.
C2_IssuedTokenResolvesToItsPrincipal ==
    \A r \in Req : \A P \in UserIds :
        (/\ state[r].user # None
         /\ generate_api_key(P, api_key_secret) \in issued
         /\ state[r].api_key[1] = generate_api_key(P, api_key_secret))
            => state[r].user[1].user_id = P

\* C3: no request that arrives after a token has been revoked is verified
\* with that token.
C3_RevokedNeverVerifies ==
    [][\A r \in Req : \A t \in revoked :
          req[r].pc = "idle" => state'[r].api_key # Some(t)]_vars

\* C4: validate_permissions(R, U) is true exactly when R and U share a label.
C4_OrSemantics ==
    perm.result # "none" =>
        (perm.result = "true"
            <=> Range(perm.required) \cap Range(perm.user) # {})

C4_Witness ==
    /\ perm.user = <<"viewer">>
    /\ perm.required = <<"viewer", "moderator">>
    /\ perm.result = "true"

\* C5: the handler of a protected route runs only for a request that a
\* permission evaluation of that route has allowed: the principal's
\* permissions share a label with permissions the route requires.
C5_PermissionEnforcedPerRoute ==
    \A r \in Req :
        (req[r].handler_ran /\ req[r].path \notin ListedPaths) =>
            \E required \in RouteCheckers(req[r].path) :
                /\ state[r].user # None
                /\ validate_permissions(required,
                                        state[r].user[1].permissions)

\* C6: a request to a listed path passes the gate without the headers being
\* read, the verifier being called or anything being attached, and gets the
\* handler's response; a request to any other path has its headers read and
\* reaches no handler unless its credential is verified.
C6_ExcludedPathsBypassGate ==
    \A r \in Req :
        req[r].pc # "idle" =>
            IF req[r].path \in ListedPaths
            THEN /\ ~req[r].headers_read
                 /\ req[r].verified = "not_called"
                 /\ state[r] = NoState
                 /\ req[r].pc = "responded" =>
                        req[r].handler_ran /\ resp[r].status = 200
            ELSE /\ req[r].headers_read
                 /\ req[r].pc # "responded" => req[r].verified = "ok"
                 /\ req[r].handler_ran => req[r].verified = "ok"

C6_Witness ==
    \E r \in Req :
        /\ req[r].path = "/generate-api-key"
        /\ req[r].xkey = Some(garbage)
        /\ req[r].pc = "responded"
        /\ resp[r].status = 200

\* C7: a request to a path that is not listed, with X-API-Key and
\* Authorization both absent or empty, is answered 401 "API key required",
\* reaches no handler and has nothing attached.
C7_MissingKeyRejected ==
    \A r \in Req :
        (/\ req[r].pc # "idle"
         /\ req[r].path \notin ListedPaths
         /\ Empty(req[r].xkey)
         /\ Empty(req[r].auth))
            => Rejected(r, "API key required")

C7_Witness ==
    \E r \in Req :
        /\ req[r].path = "/mcp/call-tool"
        /\ req[r].xkey = None
        /\ req[r].auth = Some(<<>>)
        /\ resp[r].status = 401

\* C8: a request to a path that is not listed whose credential lacks the
\* marker or is not longer than 10 characters fails verification, and every
\* request that fails verification is answered 401 "Invalid API key", reaches
\* no handler and has nothing attached.
C8_InvalidKeyRejectedUniformly ==
    \A r \in Req :
        /\ (/\ req[r].pc # "idle"
            /\ req[r].path \notin ListedPaths
            /\ ~(Empty(req[r].xkey) /\ Empty(req[r].auth))
            /\ ~WellFormed(Presented(r)))
               => req[r].verified = "failed"
        /\ req[r].verified = "failed" => Rejected(r, "Invalid API key")

C8_Witness ==
    \E r \in Req :
        /\ req[r].xkey = Some(garbage_long)
        /\ req[r].auth = Some(Bearer_ \o tok_alice)
        /\ req[r].path = "/mcp/tools"
        /\ resp[r].detail = "Invalid API key"

\* C9: while the handler of a path that is not listed is about to run, runs
\* or has run, request.state holds a Principal and the credential this same
\* request presented, whatever other requests do meanwhile; a request.state
\* never holds anything else, and holds nothing once the request is over.
C9_OwnContextOnly ==
    \A r \in Req :
        /\ (/\ req[r].path \notin ListedPaths
            /\ \/ req[r].pc \in {"handler", "wait_ready", "have_bot"}
               \/ req[r].handler_ran)
               => /\ state[r].user # None
                  /\ state[r].api_key = Some(Presented(r))
        /\ state[r] # NoState =>
               /\ req[r].pc # "idle"
               /\ state[r].api_key = Some(Presented(r))
        /\ req[r].pc = "idle" => state[r] = NoState

C9_Witness ==
    \E r1 \in Req : \E r2 \in Req :
        /\ req[r1].pc = "have_bot"
        /\ req[r2].pc = "have_bot"
        /\ state[r1].api_key = Some(forged)
        /\ state[r2].api_key = Some(tok_alice)

\* C10: a platform operation has been invoked for a request only if the gate
\* has verified that request's credential.
C10_PlatformOnlyAfterVerification ==
    \A r \in Req :
        req[r].platform # "" => req[r].verified = "ok"

C10_Witness ==
    \E r \in Req :
        /\ req[r].platform = "ban_user"
        /\ req[r].verified = "ok"
        /\ resp[r].status = 200

\* C11: two requests to the same path that is not listed, one presenting a
\* token t as "X-API-Key: t" and the other as "Authorization: Bearer t", get
\* the same verdict of the gate and the same credential in request.state.
C11_SameOutcomeEitherHeader ==
    \A r1 \in Req : \A r2 \in Req :
        (/\ req[r1].pc # "idle"
         /\ req[r2].pc # "idle"
         /\ req[r1].path = req[r2].path
         /\ req[r1].path \notin ListedPaths
         /\ req[r1].xkey # None
         /\ req[r1].auth = None
         /\ req[r2].xkey = None
         /\ req[r2].auth = Some(Bearer_ \o req[r1].xkey[1]))
            => /\ req[r1].verified = req[r2].verified
               /\ state[r1].api_key = state[r2].api_key

\* C12: the permission checker ends with 401 exactly when request.state holds
\* no Principal, with 403 exactly when it holds a Principal whose permissions
\* share no label with the required ones, and returns True otherwise; a
\* Principal without a permissions entry has no permissions and gets 403.
C12_CheckerDenials ==
    perm.status # 0 =>
        LET attached == perm.principal # None
            held == IF attached /\ "permissions" \in DOMAIN perm.principal[1]
                    THEN Range(perm.principal[1].permissions)
                    ELSE {}
        IN  /\ perm.status \in {401, 403, 200}
            /\ perm.status = 401 <=> ~attached
            /\ perm.status = 403 <=>
                   (attached /\ held \cap Range(perm.required) = {})
            /\ (attached /\ "permissions" \notin DOMAIN perm.principal[1])
                   => perm.status = 403

C12_Witness ==
    /\ perm.principal # None
    /\ "permissions" \notin DOMAIN perm.principal[1]
    /\ perm.required = <<"viewer">>
    /\ perm.status = 403

\* C13: a request to /generate-api-key with an empty user_id is answered 400
\* and gets no token.
C13_EmptyPrincipalRejected ==
    \A r \in Req :
        (/\ req[r].path = "/generate-api-key"
         /\ req[r].user_id = Some(<<>>)
         /\ req[r].pc = "responded")
            => /\ resp[r].status = 400
               /\ resp[r].api_key = None

\* C14: every token generate_api_key returns is "mcp_" followed by the first
\* 32 characters of the digest, 36 characters in all; a second call with the
\* same user_id and secret returns the same token; and the verifier accepts
\* the token.
C14_TokenFormat ==
    /\ gen.token # None =>
          /\ Len(gen.token[1]) = 36
          /\ SubSeq(gen.token[1], 1, 4) = <<"m", "c", "p", "_">>
          /\ SubSeq(gen.token[1], 5, 36) =
                SubSeq(hexdigest(gen.secret,
                                 gen.user_id \o <<":">> \o gen.secret), 1, 32)
          /\ \A i \in 5..36 : gen.token[1][i] \in Range(HexChars)
          /\ WellFormed(gen.token[1])
    /\ gen.again # None => gen.again = gen.token
    /\ gen.verified # "none" => gen.verified = "true"

C14_Witness ==
    /\ gen.user_id = <<"a", "_">>
    /\ gen.secret = <<"s", "1">>
    /\ gen.again # None
    /\ gen.verified = "true"

\* C15: every verification that succeeds attaches a Principal whose
\* permission set is not empty and is the one the credential store holds for
\* the presented token at that moment.
C15_PermissionsFromStore ==
    [][\A r \in Req :
          (req[r].pc = "idle" /\ state'[r].user # None) =>
              /\ state'[r].user[1].permissions # <<>>
              /\ state'[r].api_key[1] \in DOMAIN grants =>
                     state'[r].user[1].permissions
                         = grants[state'[r].api_key[1]]]_vars

\* C16: a call of a tool through /mcp/call-tool whose bot operation fails,
\* because its channel or guild is not found or because the platform reports
\* an error, is answered 500 and the response carries no text of the failure.
C16_PlatformFailureIsGeneric500 ==
    \A r \in Req :
        (/\ req[r].pc = "responded"
         /\ req[r].path = "/mcp/call-tool"
         /\ req[r].outcome \in {"not_found", "platform_error"})
            => /\ resp[r].status = 500
               /\ resp[r].error = ""

\* C17: a call through /mcp/call-tool that names a tool the registry does
\* not hold is answered 404 with the detail that the tool is not found, and
\* no tool runs for it.
C17_UnknownToolIs404 ==
    \A r \in Req :
        (/\ req[r].pc = "responded"
         /\ req[r].path = "/mcp/call-tool"
         /\ req[r].verified = "ok"
         /\ req[r].tool \notin ToolRegistry)
            => /\ resp[r].status = 404
               /\ resp[r].detail = "Tool not found"
               /\ req[r].outcome = ""
               /\ req[r].platform = ""

\* C18: whenever get_discord_bot returns an instance, to the handler of a
\* request, to a tool called directly or to the lifespan, that instance is
\* ready.
C18_ReturnedBotIsReady ==
    [][/\ \A r \in Req :
             (req[r].pc # "have_bot" /\ req'[r].pc = "have_bot")
                 => bot'.is_ready
       /\ \A d \in Direct :
             (direct[d].pc # "have_bot" /\ direct'[d].pc = "have_bot")
                 => bot'.is_ready
       /\ (life # "serving" /\ life' = "serving") => bot'.is_ready]_vars

\* C19: once the start of the bot has failed, every wait for the bot to be
\* ready comes to an end: the lifespan's startup does not stay in its wait,
\* and neither does a tool call.
C19_FailedStartEndsTheWait ==
    [](bot.task = "failed" =>
          <>(/\ life # "wait_ready"
             /\ \A d \in Direct : direct[d].pc # "wait_ready"))

\* C20: between two shutdowns at most one DiscordBot is constructed and one
\* start_bot launched, and every caller holds that instance; a shutdown
\* closes and clears the instance, and the call after it constructs the next
\* one.
C20_Singleton ==
    /\ [](/\ bot.constructed <= bot.closed + 1
          /\ bot.started <= bot.closed + 1
          /\ \A r \in Req :
                req[r].pc = "have_bot" =>
                    req[r].got # 0 /\ req[r].got = bot.instance
          /\ \A d \in Direct :
                direct[d].pc = "have_bot" =>
                    direct[d].got # 0 /\ direct[d].got = bot.instance)
    /\ [][/\ (life = "serving" /\ life' = "stopped") =>
                /\ bot'.instance = 0
                /\ bot'.task = "closed"
                /\ bot'.closed = bot.closed + 1
          /\ (life = "stopped" /\ life' # "stopped") =>
                /\ bot'.instance = bot.constructed + 1
                /\ bot'.constructed = bot.constructed + 1
                /\ bot'.started = bot.started + 1]_vars

C20_Witness ==
    /\ bot.constructed = 2
    /\ bot.closed = 1
    /\ \E r1 \in Req : \E r2 \in Req :
          /\ r1 # r2
          /\ req[r1].pc = "have_bot"
          /\ req[r2].pc = "have_bot"
          /\ req[r1].got = 2
          /\ req[r2].got = 2

\* C21: a tool handler never raises; it returns success true exactly when
\* its bot operation returned, and success false with an error text when
\* get_discord_bot or the bot operation raised.
C21_ToolHandlerNeverRaises ==
    call.pc = "ended" =>
        /\ ~call.raised
        /\ call.success <=> call.op = "returned"
        /\ call.success <=>
               (/\ ~call.get_raises
                /\ call.target_known
                /\ call.tool = "kick_user" => call.member_known
                /\ call.fail_at \notin 1..Len(PlatformCalls(call.tool)))
        /\ ~call.success => call.error # ""
        /\ call.success => call.error = ""

C21_Witness ==
    /\ call.pc = "ended"
    /\ call.tool = "ban_user"
    /\ call.target_known
    /\ call.fail_at = 2
    /\ ~call.success
    /\ call.error = "platform error"

\* C22: a bot operation whose channel or guild is not known, and kick_user
\* for a user who is not a member of the guild, raises and makes no call to
\* the platform.
C22_UnresolvedTargetNoEffect ==
    (/\ call.pc = "ended"
     /\ ~call.get_raises
     /\ \/ ~call.target_known
        \/ call.tool = "kick_user" /\ ~call.member_known)
        => /\ call.op = "raised"
           /\ call.calls = <<>>

C22_Witness ==
    /\ call.pc = "ended"
    /\ call.tool = "kick_user"
    /\ call.target_known
    /\ ~call.member_known
    /\ call.fail_at = 0
    /\ call.op = "raised"
    /\ call.error = "Member not found in guild"

\* Two characters that are the same letter, whatever their case.
SameLetter(x, y) ==
    \/ x = y
    \/ {x, y} \in {{"a", "A"}, {"b", "B"}}

\* str has query in it, case ignored.
Matches(query, str) ==
    \E off \in 0..(Len(str) - Len(query)) :
        \A k \in 1..Len(query) : SameLetter(query[k], str[off + k])

\* The positions of the channel's most recent `limit` messages.
Scanned ==
    {i \in 1..Len(search.history) : i <= search.limit}

\* C23: search_messages returns, in history order, exactly the messages
\* among the channel's most recent `limit` whose content has the query in
\* it, case ignored; so at most `limit` of them, and none that is older.
C23_SearchScansLimit ==
    search.result # None =>
        LET result == search.result[1]
        IN  /\ Range(result) =
                  {i \in Scanned : Matches(search.query, search.history[i])}
            /\ \A j, k \in 1..Len(result) : j < k => result[j] < result[k]
            /\ Len(result) <= search.limit
            /\ \A i \in Range(result) : i <= search.limit

C23_Witness ==
    /\ search.result = Some(<<2>>)
    /\ search.limit = 2
    /\ search.query = <<"a", "B">>
    /\ search.history = << <<"b">>, <<"A", "B">>, <<"a", "b">> >>

\* C24: APIKeyAuth.verify_api_key and AuthenticationMiddleware.verify_api_key
\* give every token the same verdict: accepted exactly when the token
\* starts with "mcp_" and has more than 10 characters.
C24_VerifiersAgree ==
    /\ (ver.bearer # "none" /\ ver.middleware # "none")
          => ver.bearer = ver.middleware
    /\ ver.bearer # "none"
          => (ver.bearer = "accepted" <=> WellFormed(ver.token))
    /\ ver.middleware # "none"
          => (ver.middleware = "accepted" <=> WellFormed(ver.token))

C24_Witness ==
    /\ Len(ver.token) = 10
    /\ StartsWith(ver.token, mcp_)
    /\ ver.bearer = "rejected"
    /\ ver.middleware = "rejected"

====
